---- MODULE Spec2Model ----
(***************************************************************************)
(* gget: the container lifecycle orchestration of main.go.                 *)
(*                                                                         *)
(* The processes are main (flags, output directory, image build, fan-out   *)
(* and join), one goroutine per list entry (create, start, follow logs,    *)
(* remove) and the signal goroutine of HandleSIGTERM.  The container       *)
(* engine and the operating system are the environment: an engine call     *)
(* either succeeds or returns an error, and returns an error whenever it   *)
(* is issued with a cancelled context.                                     *)
(***************************************************************************)
EXTENDS Integers, Sequences, FiniteSets, TLC

\* ------------------------------------------------------------------ bounds

\* Most entries of the list file.
MaxTargets == 2
\* Most lines of the image-build response.
MaxLines == 2
\* Most interrupt/terminate signals the environment sends.
MaxSignals == 2
\* Longest hostname of the targets CreateSpec draws.
MaxHostLen == 3
\* Most lines of a log stream ClassifySpec draws.
MaxLogLines == 2
\* Most Reads in which io.Copy takes a log stream in ClassifySpec.
MaxReads == 2

\* ----------------------------------------------------------------- strings

\* The characters of a hostname that matter to the identifier.
Char == {"a", ".", "_"}

RECURSIVE StringsUpTo(_)
StringsUpTo(n) ==
    IF n = 0 THEN {<<>>}
    ELSE LET shorter == StringsUpTo(n - 1)
         IN shorter \cup {Append(s, c) : s \in {t \in shorter : Len(t) = n - 1}, c \in Char}

\* strings.Replace(s, ".", "_", 1): only the first dot.
RECURSIVE ReplaceFirst(_)
ReplaceFirst(s) ==
    IF s = <<>> THEN <<>>
    ELSE IF Head(s) = "." THEN <<"_">> \o Tail(s)
    ELSE <<Head(s)>> \o ReplaceFirst(Tail(s))

\* strings.ReplaceAll(url.Hostname(), ".", "_")
RECURSIVE ReplaceAll(_)
ReplaceAll(s) ==
    IF s = <<>> THEN <<>>
    ELSE <<(IF Head(s) = "." THEN "_" ELSE Head(s))>> \o ReplaceAll(Tail(s))

\* The mount target "/home/gget" followed by the "/" of the Sprintf format.
HomeGget == <<"/", "h", "o", "m", "e", "/", "g", "g", "e", "t", "/">>

\* fmt.Sprintf("/home/gget/%s", hostname)
OutputPath(hostname) == HomeGget \o hostname

\* What follows the last "/" of a path.
RECURSIVE LastComponent(_)
LastComponent(p) ==
    IF p = <<>> THEN <<>>
    ELSE IF p[Len(p)] = "/" THEN <<>>
    ELSE Append(LastComponent(SubSeq(p, 1, Len(p) - 1)), p[Len(p)])

\* ----------------------------------------------------------------- targets

\* A target is a line of the list or the -u value: whether url.Parse accepts
\* it, and what url.Hostname() returns for it.
Target(p, h) == [empty |-> FALSE, parses |-> p, hostname |-> h]

\* The empty string: the -u value when the flag is absent.  url.Parse("")
\* succeeds and its hostname is empty.
NoTarget == [empty |-> TRUE, parses |-> TRUE, hostname |-> <<>>]

\* The targets of the orchestration runs: two hostnames that differ by
\* '.' versus '_' only, a third one, and a malformed target.
Targets ==
    { Target(TRUE, <<"a", ".", "a">>),
      Target(TRUE, <<"a", "_", "a">>),
      Target(TRUE, <<"a">>),
      Target(FALSE, <<>>) }

\* Every target up to MaxHostLen.
AllTargets == {Target(p, h) : p \in BOOLEAN, h \in StringsUpTo(MaxHostLen)}

RECURSIVE SeqsUpTo(_, _)
SeqsUpTo(S, n) ==
    IF n = 0 THEN {<<>>}
    ELSE LET shorter == SeqsUpTo(S, n - 1)
         IN shorter \cup {Append(s, x) : s \in {t \in shorter : Len(t) = n - 1}, x \in S}

Jobs == 1..MaxTargets

\* ------------------------------------------------- image-build response body

\* A piece of the response body inside one chunk: a whole JSON line, or the
\* head or the tail of a line that a chunk boundary cuts.  error: the line's
\* "error" field is not empty.
Piece(k, e) == [kind |-> k, error |-> e]

\* The pieces of a response of lines, each with the chunk boundary that may
\* follow it: line i is cut in two when mid[i], and a boundary follows it
\* when cut[i].
RECURSIVE Pieces(_, _, _)
Pieces(lines, mid, cut) ==
    IF lines = <<>> THEN <<>>
    ELSE (IF Head(mid)
          THEN << [piece |-> Piece("head", Head(lines)), brk |-> TRUE],
                  [piece |-> Piece("tail", Head(lines)), brk |-> Head(cut)] >>
          ELSE << [piece |-> Piece("whole", Head(lines)), brk |-> Head(cut)] >>)
         \o Pieces(Tail(lines), Tail(mid), Tail(cut))

\* The chunks res.Body hands to io.Copy, one per Read.
RECURSIVE Group(_, _)
Group(ps, cur) ==
    IF ps = <<>> THEN (IF cur = <<>> THEN <<>> ELSE <<cur>>)
    ELSE LET c == Append(cur, Head(ps).piece)
         IN IF Head(ps).brk THEN <<c>> \o Group(Tail(ps), <<>>)
            ELSE Group(Tail(ps), c)

\* Every response of one to MaxLines lines under every chunking (a build
\* reports at least its first step).
Bodies ==
    UNION { { [chunks |-> Group(Pieces(lines, mid, cut), <<>>),
               hasError |-> \E i \in 1..n : lines[i]] :
              lines \in [1..n -> BOOLEAN], mid \in [1..n -> BOOLEAN],
              cut \in [1..n -> BOOLEAN] } : n \in 1..MaxLines }

\* ----------------------------------------------------------- GitDumperLog

Lower == {"a","b","c","d","e","f","g","h","i","j","k","l","m",
          "n","o","p","q","r","s","t","u","v","w","x","y","z"}
Upper == {"A","B","C","D","E","F","G","H","I","J","K","L","M",
          "N","O","P","Q","R","S","T","U","V","W","X","Y","Z"}
Digit == {"0","1","2","3","4","5","6","7","8","9"}

\* The sentinels of GitDumperLog.Write.
Fetching == <<"F","e","t","c","h","i","n","g">>
Testing == <<"T","e","s","t","i","n","g">>

\* The character classes of URLRegex, and \w of the \b in it.
HostClass == Lower \cup Upper \cup Digit \cup {"-","@",":","%",".","_","+","~","#","="}
TldClass == Lower \cup Upper \cup Digit \cup {"(",")"}
PathClass == Lower \cup Upper \cup Digit
               \cup {"-","(",")","@",":","%","_","+",".","~","#","?","&","/","="}
WordClass == Lower \cup Upper \cup Digit \cup {"_"}
\* {1,256} and {1,6} in URLRegex
HostMax == 256
TldMax == 6

\* strings.Contains(s, sub)
Contains(s, sub) ==
    \E i \in 1..(Len(s) - Len(sub) + 1) : SubSeq(s, i, i + Len(sub) - 1) = sub

\* s holds lit at position p.
At(s, p, lit) == p + Len(lit) - 1 <= Len(s) /\ SubSeq(s, p, p + Len(lit) - 1) = lit

\* The length of the longest run of class characters at position p, max at
\* most (a greedy repetition).
RECURSIVE Run(_, _, _, _)
Run(s, p, class, max) ==
    IF max = 0 \/ p > Len(s) THEN 0
    ELSE IF s[p] \notin class THEN 0
    ELSE 1 + Run(s, p + 1, class, max - 1)

\* \b before position p: a word character on one side only.
WordBoundary(s, p) ==
    (p > 1 /\ p - 1 <= Len(s) /\ s[p - 1] \in WordClass) # (p <= Len(s) /\ s[p] \in WordClass)

\* [host]{1,256}\.[tld]{1,6}\b([path]*) at position q: the position after the
\* match, 0 when there is none.  Both repetitions are greedy: the longest
\* host that leaves a match, then the longest top-level name.
MatchHost(s, q) ==
    LET hs == { h \in 1..Run(s, q, HostClass, HostMax) :
                  /\ At(s, q + h, <<".">>)
                  /\ \E t \in 1..Run(s, q + h + 1, TldClass, TldMax) :
                        WordBoundary(s, q + h + 1 + t) }
    IN IF hs = {} THEN 0
       ELSE LET h == CHOOSE x \in hs : \A y \in hs : y <= x
                ts == { t \in 1..Run(s, q + h + 1, TldClass, TldMax) :
                          WordBoundary(s, q + h + 1 + t) }
                t == CHOOSE x \in ts : \A y \in ts : y <= x
                e == q + h + 1 + t
            IN e + Run(s, e, PathClass, Len(s))

\* URLRegex at position i: https?:\/\/(www\.)? and the rest, the optional
\* parts taken first; the position after the match, 0 when there is none.
MatchAt(s, i) ==
    LET scheme == IF At(s, i, <<"h","t","t","p","s",":","/","/">>) THEN 8
                  ELSE IF At(s, i, <<"h","t","t","p",":","/","/">>) THEN 7
                  ELSE 0
        q == i + scheme
        www == IF At(s, q, <<"w","w","w",".">>) THEN MatchHost(s, q + 4) ELSE 0
    IN IF scheme = 0 THEN 0
       ELSE IF www # 0 THEN www
       ELSE MatchHost(s, q)

\* g.URLRegex.Find(p): the leftmost match, nil (printed as "") when none.
Find(s) ==
    LET is == { i \in 1..Len(s) : MatchAt(s, i) # 0 }
    IN IF is = {} THEN <<>>
       ELSE LET i == CHOOSE x \in is : \A y \in is : x <= y
            IN SubSeq(s, i, MatchAt(s, i) - 1)

\* GitDumperLog.Write with the two tests in the other order.
GitDumperLogWriteTestingFirst(p) ==
    [ chunk |-> p,
      phase |-> IF Contains(p, Testing) THEN "Testing"
                ELSE IF Contains(p, Fetching) THEN "Fetching"
                ELSE "Other",
      text |-> IF Contains(p, Testing) \/ Contains(p, Fetching) THEN Find(p) ELSE p,
      n |-> Len(p),
      err |-> "nil" ]

\* GitDumperLog.Write that finds no sentinel.
GitDumperLogWriteRaw(p) ==
    [ chunk |-> p, phase |-> "Other", text |-> p, n |-> Len(p), err |-> "nil" ]

\* GitDumperLog.Write(p): the line it prints (phase and text) and what it
\* returns (n, err), with the chunk it was given.
GitDumperLogWrite(p) ==
    [ chunk |-> p,
      phase |-> IF Contains(p, Fetching) THEN "Fetching"
                ELSE IF Contains(p, Testing) THEN "Testing"
                ELSE "Other",
      text |-> IF Contains(p, Fetching) \/ Contains(p, Testing) THEN Find(p) ELSE p,
      n |-> Len(p),
      err |-> "nil" ]

\* What git-dumper prints: a line per file it fetches, a line per path it
\* tests.
LogLines ==
    { Fetching \o <<" ","h","t","t","p",":","/","/","a",".","b","/","c">>,
      Testing \o <<" ","h","t","t","p","s",":","/","/","c",".","d","\n">> }

RECURSIVE Flatten(_)
Flatten(ls) == IF ls = <<>> THEN <<>> ELSE Head(ls) \o Flatten(Tail(ls))

\* The log streams of one to MaxLogLines lines.
LogStreams == { Flatten(ls) : ls \in UNION { [1..n -> LogLines] : n \in 1..MaxLogLines } }

\* ------------------------------------------------------------------- state

VARIABLES
    input,          \* -u: a target, or NoTarget
    output,         \* -o given
    inputFilePath,  \* -f given
    fileLines,      \* the lines scanned from the list file
    inputFile,      \* the opened list file (TRUE) or nil (FALSE)
    mainpc,         \* where main is
    body,           \* the chunks of the build response not yet read
    bodyHasError,   \* the build response holds a line with an error field
    ctxCancelled,   \* cancel() was called on the shared context
    outputExists,   \* the output directory exists
    handler,        \* where the signal goroutine is
    sigchan,        \* signals waiting in the channel c (capacity 1)
    sigSent,        \* signals the environment sent
    urls,           \* the targets of the jobs
    wg,             \* the WaitGroup counter
    pc,             \* where each job is
    ctr,            \* each job's container: "none", "created", "running", "exited", "removed"
    calls,          \* each job's engine requests and the end of its log copy, in order
    createReq,      \* the create request each job issued
    exit,           \* "running", "exit0", "exit1", "killed"
    fatal,          \* the LogFatal that ended the process
    fatalJob,       \* the job that called it (0: none)
    cbRuns,         \* times the cleanup callback was entered
    cbDone,         \* times it returned
    sigMidBatch,    \* a signal was delivered while jobs were in progress
    engineErr,      \* the engine failed a request issued with a live context
    rc,             \* the bytes of a job's log stream io.Copy has not read
    events          \* what GitDumperLog.Write printed and returned, per chunk

vars == << input, output, inputFilePath, fileLines, inputFile, mainpc, body, bodyHasError,
           ctxCancelled, outputExists, handler, sigchan, sigSent, urls, wg, pc,
           ctr, calls, createReq, exit, fatal, fatalJob, cbRuns, cbDone,
           sigMidBatch, engineErr, rc, events >>

config == << input, output, inputFilePath, bodyHasError >>
mainv == << inputFile, mainpc, body, fileLines, urls, wg >>
sigv == << handler, sigchan, sigSent, cbRuns, cbDone, sigMidBatch >>
jobv == << pc, ctr, calls, createReq >>
logv == << rc, events >>

NoReq == [name |-> <<>>, path |-> <<>>, issued |-> FALSE]

\* The process state common to every run: nothing has happened yet.
Fresh ==
    /\ inputFile = FALSE
    /\ ctxCancelled = FALSE
    /\ outputExists = FALSE
    /\ handler = "none"
    /\ sigchan = 0
    /\ sigSent = 0
    /\ urls = <<>>
    /\ wg = 0
    /\ pc = [j \in Jobs |-> "idle"]
    /\ ctr = [j \in Jobs |-> "none"]
    /\ calls = [j \in Jobs |-> <<>>]
    /\ createReq = [j \in Jobs |-> NoReq]
    /\ exit = "running"
    /\ fatal = "none"
    /\ fatalJob = 0
    /\ cbRuns = 0
    /\ cbDone = 0
    /\ sigMidBatch = FALSE
    /\ engineErr = FALSE
    /\ rc = <<>>
    /\ events = <<>>

Init ==
    /\ output \in BOOLEAN
    /\ \/ /\ input \in Targets \cup {NoTarget}
          /\ inputFilePath = FALSE
          /\ fileLines = <<>>
       \/ /\ input = NoTarget
          /\ inputFilePath = TRUE
          /\ fileLines = <<>>
    /\ \E b \in Bodies : body = b.chunks /\ bodyHasError = b.hasError
    /\ mainpc = "HandleInput"
    /\ Fresh

\* ----------------------------------------------------------------- LogFatal

\* log.Print in place of log.Fatal: the error is reported and the process
\* goes on.
LogPrint(cause, j) ==
    /\ exit' = exit
    /\ fatal' = cause
    /\ fatalJob' = j

\* LogFatal: log.Fatal prints and calls os.Exit(1).
LogFatal(cause, j) ==
    /\ exit' = "exit1"
    /\ fatal' = cause
    /\ fatalJob' = j

NoFatal == UNCHANGED <<exit, fatal, fatalJob>>

\* What an engine call issued now can return: an error when the context is
\* cancelled, otherwise success or an error of the engine's own.
Outcomes == IF ctxCancelled THEN {FALSE} ELSE BOOLEAN

\* ghost: an engine call with a live context failed
Failed(ok) == engineErr' = (engineErr \/ (~ok /\ ~ctxCancelled))

\* --------------------------------------------------------------------- main

\* HandleInput without the test of an empty -u.
HandleInputUnchecked ==
    /\ exit = "running"
    /\ mainpc = "HandleInput"
    /\ \/ /\ inputFilePath
          /\ \/ /\ inputFile' = TRUE
                /\ mainpc' = "HandleOutput"
                /\ NoFatal
             \/ /\ LogFatal("open", 0)
                /\ UNCHANGED <<inputFile, mainpc>>
       \/ /\ ~inputFilePath
          /\ mainpc' = "HandleOutput"
          /\ NoFatal
          /\ UNCHANGED inputFile
    /\ UNCHANGED <<config, logv, body, fileLines, urls, wg, ctxCancelled, outputExists, sigv, jobv, engineErr>>

\* HandleInput(&input, &inputFilePath)
HandleInput ==
    /\ exit = "running"
    /\ mainpc = "HandleInput"
    /\ \/ /\ inputFilePath
          /\ \/ /\ inputFile' = TRUE            \* os.Open succeeded
                /\ mainpc' = "HandleOutput"
                /\ NoFatal
             \/ /\ LogFatal("open", 0)          \* os.Open failed
                /\ UNCHANGED <<inputFile, mainpc>>
       \/ /\ ~inputFilePath
          /\ IF input.empty
             THEN LogFatal("config", 0) /\ UNCHANGED mainpc
             ELSE mainpc' = "HandleOutput" /\ NoFatal
          /\ UNCHANGED inputFile
    /\ UNCHANGED <<config, logv, body, fileLines, urls, wg, ctxCancelled, outputExists, sigv, jobv, engineErr>>

\* HandleOutput(&output): the path is resolved and the directory made.
HandleOutput ==
    /\ exit = "running"
    /\ mainpc = "HandleOutput"
    /\ IF ~output
       THEN LogFatal("config", 0) /\ UNCHANGED <<mainpc, outputExists>>
       ELSE \/ /\ outputExists' = TRUE          \* os.MkdirAll succeeded
               /\ mainpc' = "setup"
               /\ NoFatal
            \/ /\ LogFatal("mkdir", 0)          \* UserHomeDir, Abs or MkdirAll failed
               /\ UNCHANGED <<mainpc, outputExists>>
    /\ UNCHANGED <<config, logv, inputFile, body, fileLines, urls, wg, ctxCancelled, sigv, jobv, engineErr>>

\* context.WithCancel, client.NewClientWithOpts, go HandleSIGTERM(cleanup)
Setup ==
    /\ exit = "running"
    /\ mainpc = "setup"
    /\ \/ /\ handler' = "spawned"
          /\ mainpc' = "ImageBuild"
          /\ NoFatal
       \/ /\ LogFatal("client", 0)
          /\ UNCHANGED <<handler, mainpc>>
    /\ UNCHANGED <<config, logv, inputFile, body, fileLines, urls, wg, ctxCancelled, outputExists,
                   sigchan, sigSent, cbRuns, cbDone, sigMidBatch, jobv, engineErr>>

\* BuildImage: client.ImageBuild(ctx, tarFile, options)
ImageBuild ==
    /\ exit = "running"
    /\ mainpc = "ImageBuild"
    /\ \E ok \in Outcomes :
          /\ Failed(ok)
          /\ IF ok
             THEN mainpc' = "Copy" /\ NoFatal
             ELSE LogFatal("build", 0) /\ UNCHANGED mainpc
    /\ UNCHANGED <<config, logv, inputFile, body, fileLines, urls, wg, ctxCancelled, outputExists, sigv, jobv>>

\* ImageBuildResponse.Write(p): the decoder reads the first JSON value of the
\* chunk and no more.  fatal: ib.Error is not empty; err: Decode failed.
Write(chunk) ==
    LET first == Head(chunk)
        decoded == first.kind = "whole"
    IN [fatal |-> decoded /\ first.error, err |-> ~decoded]

\* io.Copy returns after the first chunk.
CopyOneChunk(b) == TRUE

\* io.Copy returns nil when the reader is at its end.
CopyReturns(b) == b = <<>>

\* BuildImage: io.Copy(&ibr, res.Body), one Read and Write per step, then the
\* return to main.
BuildCopy ==
    /\ exit = "running"
    /\ mainpc = "Copy"
    /\ \/ /\ body # <<>>                        \* a chunk is read and written
          /\ IF Write(Head(body)).fatal \/ Write(Head(body)).err
             THEN LogFatal("build", 0) /\ UNCHANGED body
             ELSE body' = Tail(body) /\ NoFatal
          /\ UNCHANGED <<mainpc, engineErr>>
       \/ /\ \E ok \in Outcomes \ {TRUE} :      \* the Read fails
                Failed(ok)
          /\ LogFatal("build", 0)
          /\ UNCHANGED <<mainpc, body>>
       \/ /\ CopyReturns(body)
          /\ mainpc' = "dispatch"
          /\ NoFatal
          /\ UNCHANGED <<body, engineErr>>
    /\ UNCHANGED <<config, logv, inputFile, fileLines, urls, wg, ctxCancelled, outputExists, sigv, jobv>>

\* Every goroutine is handed the last entry (the loop variable captured).
GoArgsLast(lines) == [i \in 1..Len(lines) |-> lines[Len(lines)]]

\* go func(input string){...}(urls[i]): the argument of the i-th goroutine.
GoArgs(lines) == [i \in 1..Len(lines) |-> lines[i]]

\* main after BuildImage: the list is scanned and one goroutine per entry
\* launched, or the single target is run by main itself (as job 1).
Dispatch ==
    /\ exit = "running"
    /\ mainpc = "dispatch"
    /\ IF inputFile
       THEN \E lines \in SeqsUpTo(Targets, MaxTargets) :
            /\ fileLines' = lines
            /\ urls' = GoArgs(lines)
            /\ wg' = Len(lines)
            /\ pc' = [j \in Jobs |-> IF j <= Len(lines) THEN "create" ELSE "idle"]
            /\ mainpc' = "wait"
       ELSE /\ urls' = <<input>>
            /\ UNCHANGED <<fileLines, wg>>
            /\ pc' = [pc EXCEPT ![1] = "create"]
            /\ mainpc' = "single"
    /\ NoFatal
    /\ UNCHANGED <<config, logv, inputFile, body, ctxCancelled, outputExists, sigv,
                   ctr, calls, createReq, engineErr>>

\* wg.Wait() returned and the file is closed, or the single job returned:
\* main returns and the process ends with status 0.
Return ==
    /\ exit = "running"
    /\ \/ mainpc = "wait" /\ wg = 0
       \/ mainpc = "single" /\ pc[1] = "done"
    /\ mainpc' = "returned"
    /\ exit' = "exit0"
    /\ UNCHANGED <<config, logv, inputFile, body, fileLines, urls, wg, ctxCancelled, outputExists,
                   sigv, jobv, fatal, fatalJob, engineErr>>

\* --------------------------------------------------------------------- jobs

Issue(j, req) == calls' = [calls EXCEPT ![j] = Append(@, req)]

\* The hostname as it is, dots kept.
IdentifierKeepDots(t) == t.hostname

\* The container name and output subdirectory of a target.
Identifier(t) == ReplaceAll(t.hostname)

\* The engine refuses a second container of a name in use.
NameInUse(j, name) ==
    /\ name # <<>>
    /\ \E k \in Jobs \ {j} : ctr[k] \in {"created", "running", "exited"} /\ createReq[k].name = name

\* CreateContainer(ctx, client, input)
CreateContainer(j) ==
    /\ exit = "running"
    /\ pc[j] = "create"
    /\ IF ~urls[j].parses
       THEN /\ LogFatal("parse", j)
            /\ UNCHANGED <<jobv, engineErr>>
       ELSE LET hostname == Identifier(urls[j])
            IN /\ Issue(j, "create")
               /\ createReq' = [createReq EXCEPT ![j] =
                     [name |-> hostname, path |-> OutputPath(hostname), issued |-> TRUE]]
               /\ \E ok \in Outcomes :
                     /\ ok => ~NameInUse(j, hostname)
                     /\ Failed(ok)
                     /\ IF ok
                        THEN /\ ctr' = [ctr EXCEPT ![j] = "created"]
                             /\ pc' = [pc EXCEPT ![j] = "start"]
                             /\ NoFatal
                        ELSE /\ LogFatal("create", j)
                             /\ UNCHANGED <<pc, ctr>>
    /\ UNCHANGED <<config, logv, mainv, ctxCancelled, outputExists, sigv>>

\* The log stream is not followed: a started container goes to its removal.
ContainerStartNoLogs(j) ==
    /\ exit = "running"
    /\ pc[j] = "start"
    /\ Issue(j, "start")
    /\ \E ok \in Outcomes :
          /\ Failed(ok)
          /\ IF ok
             THEN /\ ctr' = [ctr EXCEPT ![j] = "running"]
                  /\ pc' = [pc EXCEPT ![j] = "remove"]
                  /\ NoFatal
             ELSE /\ LogFatal("start", j)
                  /\ UNCHANGED <<pc, ctr>>
    /\ UNCHANGED <<config, logv, mainv, ctxCancelled, outputExists, sigv, createReq>>

\* RunContainerThenRemove: client.ContainerStart(ctxroot, id, ...)
ContainerStart(j) ==
    /\ exit = "running"
    /\ pc[j] = "start"
    /\ Issue(j, "start")
    /\ \E ok \in Outcomes :
          /\ Failed(ok)
          /\ IF ok
             THEN /\ ctr' = [ctr EXCEPT ![j] = "running"]
                  /\ pc' = [pc EXCEPT ![j] = "logs"]
                  /\ NoFatal
             ELSE /\ LogFatal("start", j)
                  /\ UNCHANGED <<pc, ctr>>
    /\ UNCHANGED <<config, logv, mainv, ctxCancelled, outputExists, sigv, createReq>>

\* RunContainerThenRemove: client.ContainerLogs(ctxroot, id, Follow ...)
ContainerLogs(j) ==
    /\ exit = "running"
    /\ pc[j] = "logs"
    /\ Issue(j, "logs")
    /\ \E ok \in Outcomes :
          /\ Failed(ok)
          /\ IF ok
             THEN pc' = [pc EXCEPT ![j] = "copy"] /\ NoFatal
             ELSE LogFatal("logs", j) /\ UNCHANGED pc
    /\ UNCHANGED <<config, logv, mainv, ctxCancelled, outputExists, sigv, ctr, createReq>>

\* The environment: git-dumper ends and the container exits, which ends its
\* log stream.
ContainerExits(j) ==
    /\ exit = "running"
    /\ ctr[j] = "running"
    /\ ctr' = [ctr EXCEPT ![j] = "exited"]
    /\ UNCHANGED <<config, logv, mainv, ctxCancelled, outputExists, sigv, pc, calls,
                   createReq, exit, fatal, fatalJob, engineErr>>

\* io.Copy on a followed stream whatever the context: it returns only at the
\* end of the stream.
LogCopyBackground(j) ==
    /\ exit = "running"
    /\ pc[j] = "copy"
    /\ ctr[j] = "exited"
    /\ Issue(j, "copied")
    /\ pc' = [pc EXCEPT ![j] = "remove"]
    /\ NoFatal
    /\ UNCHANGED <<config, logv, mainv, ctxCancelled, outputExists, sigv, ctr,
                   createReq, engineErr>>

\* RunContainerThenRemove: io.Copy(&gdl, rc) blocks on the followed stream and
\* returns at its end, or with the error of a read aborted by the cancelled
\* context; the error is dropped.
LogCopy(j) ==
    /\ exit = "running"
    /\ pc[j] = "copy"
    /\ ctr[j] = "exited" \/ ctxCancelled
    /\ Issue(j, "copied")
    /\ pc' = [pc EXCEPT ![j] = "remove"]
    /\ NoFatal
    /\ UNCHANGED <<config, logv, mainv, ctxCancelled, outputExists, sigv, ctr,
                   createReq, engineErr>>

\* The goroutine without its wg.Done().
ContainerRemoveNoDone(j) ==
    /\ exit = "running"
    /\ pc[j] = "remove"
    /\ Issue(j, "remove")
    /\ \E ok \in Outcomes :
          /\ Failed(ok)
          /\ ctr' = [ctr EXCEPT ![j] = IF ok THEN "removed" ELSE @]
    /\ pc' = [pc EXCEPT ![j] = "done"]
    /\ wg' = wg
    /\ NoFatal
    /\ UNCHANGED <<config, logv, inputFile, mainpc, body, fileLines, urls, ctxCancelled,
                   outputExists, sigv, createReq>>

\* ContainerRemove with its error tested: a failed removal is fatal.
ContainerRemoveChecked(j) ==
    /\ exit = "running"
    /\ pc[j] = "remove"
    /\ Issue(j, "remove")
    /\ \E ok \in Outcomes :
          /\ Failed(ok)
          /\ IF ok
             THEN /\ ctr' = [ctr EXCEPT ![j] = "removed"]
                  /\ pc' = [pc EXCEPT ![j] = "done"]
                  /\ wg' = IF mainpc = "wait" THEN wg - 1 ELSE wg
                  /\ NoFatal
             ELSE /\ LogFatal("remove", j)
                  /\ UNCHANGED <<pc, ctr, wg>>
    /\ UNCHANGED <<config, logv, inputFile, mainpc, body, fileLines, urls, ctxCancelled,
                   outputExists, sigv, createReq>>

\* RunContainerThenRemove: client.ContainerRemove(ctxroot, id, Force ...), its
\* error dropped; the err tested after it is ContainerLogs' and is nil here.
\* Then the goroutine's wg.Done().
ContainerRemove(j) ==
    /\ exit = "running"
    /\ pc[j] = "remove"
    /\ Issue(j, "remove")
    /\ \E ok \in Outcomes :
          /\ Failed(ok)
          /\ ctr' = [ctr EXCEPT ![j] = IF ok THEN "removed" ELSE @]
    /\ pc' = [pc EXCEPT ![j] = "done"]
    /\ wg' = IF mainpc = "wait" THEN wg - 1 ELSE wg
    /\ NoFatal
    /\ UNCHANGED <<config, logv, inputFile, mainpc, body, fileLines, urls, ctxCancelled,
                   outputExists, sigv, createReq>>

\* ------------------------------------------------------------------ signals

\* Jobs are launched, one at least is not through, and main has not returned.
BatchInProgress ==
    /\ mainpc \in {"wait", "single"}
    /\ \E j \in Jobs : pc[j] \notin {"idle", "done"}

\* HandleSIGTERM: signal.Notify(c, os.Interrupt, syscall.SIGTERM), and the
\* goroutine waits on c.
Notify ==
    /\ exit = "running"
    /\ handler = "spawned"
    /\ handler' = "listening"
    /\ UNCHANGED <<config, logv, mainv, ctxCancelled, outputExists, sigchan, sigSent,
                   cbRuns, cbDone, sigMidBatch, jobv, exit, fatal, fatalJob, engineErr>>

\* The environment sends SIGINT or SIGTERM.  Before signal.Notify the signal
\* has its default disposition and kills the process; after it the signal is
\* put in c, or dropped when c is full.
Signal ==
    /\ exit = "running"
    /\ sigSent < MaxSignals
    /\ sigSent' = sigSent + 1
    /\ IF handler \in {"none", "spawned"}
       THEN /\ exit' = "killed"
            /\ UNCHANGED <<sigchan, sigMidBatch>>
       ELSE /\ sigchan' = 1
            /\ sigMidBatch' = (sigMidBatch \/ BatchInProgress)
            /\ exit' = exit
    /\ UNCHANGED <<config, logv, mainv, ctxCancelled, outputExists, handler, cbRuns,
                   cbDone, jobv, fatal, fatalJob, engineErr>>

\* The callback without its cancel(): it goes to os.RemoveAll at once.
CancelSkipped ==
    /\ exit = "running"
    /\ handler = "listening"
    /\ sigchan = 1
    /\ sigchan' = 0
    /\ cbRuns' = cbRuns + 1
    /\ handler' = "RemoveAll"
    /\ UNCHANGED <<config, logv, mainv, ctxCancelled, outputExists, sigSent, cbDone,
                   sigMidBatch, jobv, exit, fatal, fatalJob, engineErr>>

\* <-c, then the callback starts: cancel()
Cancel ==
    /\ exit = "running"
    /\ handler = "listening"
    /\ sigchan = 1
    /\ sigchan' = 0
    /\ cbRuns' = cbRuns + 1
    /\ ctxCancelled' = TRUE
    /\ handler' = "RemoveAll"
    /\ UNCHANGED <<config, logv, mainv, outputExists, sigSent, cbDone, sigMidBatch, jobv,
                   exit, fatal, fatalJob, engineErr>>

\* os.RemoveAll held back until every launched job is through.
RemoveAllAfterJobs ==
    /\ exit = "running"
    /\ handler = "RemoveAll"
    /\ \A j \in Jobs : pc[j] \in {"idle", "done"}
    /\ \/ /\ outputExists' = FALSE
          /\ cbDone' = cbDone + 1
          /\ handler' = "Exit"
          /\ NoFatal
       \/ /\ LogFatal("RemoveAll", 0)
          /\ UNCHANGED <<outputExists, cbDone, handler>>
    /\ UNCHANGED <<config, logv, mainv, ctxCancelled, sigchan, sigSent, cbRuns,
                   sigMidBatch, jobv, engineErr>>

\* The callback goes on: os.RemoveAll(output), fatal when it fails.
RemoveAll ==
    /\ exit = "running"
    /\ handler = "RemoveAll"
    /\ \/ /\ outputExists' = FALSE
          /\ cbDone' = cbDone + 1
          /\ handler' = "Exit"
          /\ NoFatal
       \/ /\ LogFatal("RemoveAll", 0)
          /\ UNCHANGED <<outputExists, cbDone, handler>>
    /\ UNCHANGED <<config, logv, mainv, ctxCancelled, sigchan, sigSent, cbRuns,
                   sigMidBatch, jobv, engineErr>>

\* os.Exit(1) after the callback
Exit ==
    /\ exit = "running"
    /\ handler = "Exit"
    /\ handler' = "exited"
    /\ exit' = "exit1"
    /\ UNCHANGED <<config, logv, mainv, ctxCancelled, outputExists, sigchan, sigSent,
                   cbRuns, cbDone, sigMidBatch, jobv, fatal, fatalJob, engineErr>>

\* ------------------------------------------------------------ specification

Next ==
    \/ HandleInput
    \/ HandleOutput
    \/ Setup
    \/ ImageBuild
    \/ BuildCopy
    \/ Dispatch
    \/ Return
    \/ \E j \in Jobs : CreateContainer(j)
    \/ \E j \in Jobs : ContainerStart(j)
    \/ \E j \in Jobs : ContainerLogs(j)
    \/ \E j \in Jobs : ContainerExits(j)
    \/ \E j \in Jobs : LogCopy(j)
    \/ \E j \in Jobs : ContainerRemove(j)
    \/ Notify
    \/ Signal
    \/ Cancel
    \/ RemoveAll
    \/ Exit

Spec == Init /\ [][Next]_vars

\* CreateContainer alone on every target up to MaxHostLen: the state is the
\* one of a single-target run (-u, -o) after BuildImage returned.
InitCreate ==
    /\ input \in AllTargets
    /\ output = TRUE
    /\ inputFilePath = FALSE
    /\ fileLines = <<>>
    /\ inputFile = FALSE
    /\ mainpc = "single"
    /\ body = <<>>
    /\ bodyHasError = FALSE
    /\ ctxCancelled = FALSE
    /\ outputExists = TRUE
    /\ handler = "listening"
    /\ sigchan = 0
    /\ sigSent = 0
    /\ urls = <<input>>
    /\ wg = 0
    /\ pc = [j \in Jobs |-> IF j = 1 THEN "create" ELSE "idle"]
    /\ ctr = [j \in Jobs |-> "none"]
    /\ calls = [j \in Jobs |-> <<>>]
    /\ createReq = [j \in Jobs |-> NoReq]
    /\ exit = "running"
    /\ fatal = "none"
    /\ fatalJob = 0
    /\ cbRuns = 0
    /\ cbDone = 0
    /\ sigMidBatch = FALSE
    /\ engineErr = FALSE
    /\ rc = <<>>
    /\ events = <<>>

NextCreate == CreateContainer(1)

CreateSpec == InitCreate /\ [][NextCreate]_vars

\* The io.Copy of one job alone on every log stream: the state is the one
\* of a single-target run after ContainerLogs returned.
InitClassify ==
    /\ input = Target(TRUE, <<"a", ".", "a">>)
    /\ output = TRUE
    /\ inputFilePath = FALSE
    /\ fileLines = <<>>
    /\ inputFile = FALSE
    /\ mainpc = "single"
    /\ body = <<>>
    /\ bodyHasError = FALSE
    /\ ctxCancelled = FALSE
    /\ outputExists = TRUE
    /\ handler = "listening"
    /\ sigchan = 0
    /\ sigSent = 0
    /\ urls = <<input>>
    /\ wg = 0
    /\ pc = [j \in Jobs |-> IF j = 1 THEN "copy" ELSE "idle"]
    /\ ctr = [j \in Jobs |-> IF j = 1 THEN "running" ELSE "none"]
    /\ calls = [j \in Jobs |-> IF j = 1 THEN <<"create", "start", "logs">> ELSE <<>>]
    /\ createReq = [j \in Jobs |-> IF j = 1
                      THEN [name |-> Identifier(input),
                            path |-> OutputPath(Identifier(input)), issued |-> TRUE]
                      ELSE NoReq]
    /\ exit = "running"
    /\ fatal = "none"
    /\ fatalJob = 0
    /\ cbRuns = 0
    /\ cbDone = 0
    /\ sigMidBatch = FALSE
    /\ engineErr = FALSE
    /\ rc \in LogStreams
    /\ events = <<>>

\* io.Copy(&gdl, rc), one Read and one gdl.Write per step: the Read returns
\* any number of the bytes left, and the Write's n and err let the copy go on.
CopyChunk ==
    /\ exit = "running"
    /\ pc[1] = "copy"
    /\ Len(events) < MaxReads
    /\ \E n \in 1..Len(rc) :
          /\ events' = Append(events, GitDumperLogWrite(SubSeq(rc, 1, n)))
          /\ rc' = SubSeq(rc, n + 1, Len(rc))
    /\ UNCHANGED <<config, mainv, ctxCancelled, outputExists, sigv, jobv,
                   exit, fatal, fatalJob, engineErr>>

NextClassify == CopyChunk

ClassifySpec == InitClassify /\ [][NextClassify]_vars

\* A step in which the startup, the image build and every engine call
\* succeed: no engine error, and no LogFatal but the one of url.Parse.
Quiet == fatal' \in {"none", "parse"} /\ engineErr' = FALSE

\* The runs with no such failure and no signal.
NextTerm ==
    \/ HandleInput /\ Quiet
    \/ HandleOutput /\ Quiet
    \/ Setup /\ Quiet
    \/ ImageBuild /\ Quiet
    \/ BuildCopy /\ Quiet
    \/ Dispatch /\ Quiet
    \/ Return /\ Quiet
    \/ Notify /\ Quiet
    \/ \E j \in Jobs : CreateContainer(j) /\ Quiet
    \/ \E j \in Jobs : ContainerStart(j) /\ Quiet
    \/ \E j \in Jobs : ContainerLogs(j) /\ Quiet
    \/ \E j \in Jobs : ContainerExits(j) /\ Quiet
    \/ \E j \in Jobs : LogCopy(j) /\ Quiet
    \/ \E j \in Jobs : ContainerRemove(j) /\ Quiet

\* Every goroutine that can take a step is scheduled in the end, and every
\* running container exits in the end.
TermSpec == Init /\ [][NextTerm]_vars /\ WF_vars(NextTerm)

\* ------------------------------------------------------------------- claims

HasCall(j, req) == \E i \in 1..Len(calls[j]) : calls[j][i] = req

IsPrefix(s, t) == Len(s) <= Len(t) /\ s = SubSeq(t, 1, Len(s))

\* The requests of a job that runs to its end, with the end of the log copy.
Lifecycle == <<"create", "start", "logs", "copied", "remove">>

\* How many times the jobs issued req.
Count(req) == Cardinality({<<j, i>> \in Jobs \X (1..Len(Lifecycle)) : i <= Len(calls[j]) /\ calls[j][i] = req})

BuildReturned == mainpc \in {"dispatch", "wait", "single", "returned"}

\* C1: no create request is issued, in single-target or list mode, before
\* BuildImage has read its response to the end and returned without a fatal
\* error; after a failed build no create request exists.
C1_BuildBarrier ==
    /\ \A j \in Jobs : HasCall(j, "create") => BuildReturned /\ body = <<>>
    /\ \A j \in Jobs : HasCall(j, "create") => fatal \notin {"build", "client", "mkdir", "config", "open"}
    /\ fatal = "build" => \A j \in Jobs : calls[j] = <<>> /\ pc[j] = "idle"

\* C1 happens: a create request was issued after a response free of errors
\* was read to its end.
C1_Witness ==
    /\ \E j \in Jobs : HasCall(j, "create")
    /\ ~bodyHasError
    /\ body = <<>>

\* C2: each job issues create, start, the log stream, its copy and remove in
\* this order, none twice, none skipped: start only with a created container,
\* the log stream only with a started one, remove only after the copy ended.
C2_JobOrder ==
    \A j \in Jobs :
       /\ IsPrefix(calls[j], Lifecycle)
       /\ HasCall(j, "start") => ctr[j] # "none"
       /\ HasCall(j, "logs") => ctr[j] \in {"running", "exited", "removed"}
       /\ HasCall(j, "remove") => calls[j] = Lifecycle /\ pc[j] = "done"

\* C2 happens: a job went through its whole lifecycle.
C2_Witness == \E j \in Jobs : calls[j] = Lifecycle /\ ctr[j] = "removed"

\* C3 (as claimed): when the process ends by main's return or by a fatal
\* error of job j itself, a remove request was issued for the container job j
\* created.
C3_RemoveIsFinalizer ==
    \A j \in Jobs :
       (/\ ctr[j] # "none"
        /\ \/ exit = "exit0"
           \/ exit = "exit1" /\ fatalJob = j)
       => HasCall(j, "remove")

\* C4 (as claimed): when the process has ended, after main returned or after
\* a signal was delivered mid-batch, and no LogFatal was called and the
\* engine failed no request of a live context, no container of this run is
\* left in the engine.
C4_NoContainerLeft ==
    (/\ exit # "running"
     /\ fatal = "none"
     /\ ~engineErr
     /\ exit = "exit0" \/ sigMidBatch)
    => \A j \in Jobs : ctr[j] \in {"none", "removed"}

\* C5: in list mode one task is launched per entry, each on its own entry;
\* when main returns every entry's job has issued exactly one create, one
\* start and one remove, so N of each, and has passed its remove.
C5_OnePerEntry ==
    (inputFile /\ mainpc \in {"wait", "returned"}) =>
       /\ Len(urls) = Len(fileLines)
       /\ \A j \in Jobs : (pc[j] # "idle") <=> (j <= Len(fileLines))
       /\ \A j \in 1..Len(fileLines) : urls[j] = fileLines[j]
       /\ \A j \in Jobs :
             createReq[j].issued =>
                /\ Len(createReq[j].name) = Len(fileLines[j].hostname)
                /\ \A i \in 1..Len(createReq[j].name) :
                      createReq[j].name[i] # "_" => createReq[j].name[i] = fileLines[j].hostname[i]
       /\ mainpc = "returned" =>
             /\ \A j \in 1..Len(fileLines) : pc[j] = "done" /\ HasCall(j, "remove")
             /\ Count("create") = Len(fileLines)
             /\ Count("start") = Len(fileLines)
             /\ Count("remove") = Len(fileLines)

\* C5 happens: main returned from a list of two entries or more.
C5_Witness ==
    /\ inputFile
    /\ exit = "exit0"
    /\ Len(fileLines) >= 2
    /\ fileLines[1] # fileLines[2]

\* C6 (as claimed): when the process has ended after a signal was delivered
\* mid-batch, no LogFatal having been called and no engine request of a live
\* context having failed, the exit status is 1 and the output directory is gone.
C6_SignalEndsWithCleanup ==
    (exit # "running" /\ sigMidBatch /\ fatal = "none" /\ ~engineErr)
    => (exit = "exit1" /\ ~outputExists)

\* C7 (as claimed): when the process has ended after the handler took a
\* signal, the cleanup callback ran exactly once, from its start to its end,
\* and the exit status is not 0.
C7_CallbackExactlyOnce ==
    (exit # "running" /\ cbRuns >= 1 /\ fatal = "none")
    => (cbRuns = 1 /\ cbDone = 1 /\ exit = "exit1")

\* C8: once a job has called LogFatal the process has ended with status 1,
\* whatever the other jobs were doing; from then on no job takes a step and
\* main does not return.
C8_FailFast ==
    /\ [](fatalJob # 0 => exit = "exit1" /\ mainpc # "returned")
    /\ [][fatalJob # 0 => UNCHANGED <<pc, calls, ctr, mainpc, exit>>]_vars

\* C8 happens: a job's fatal error ended the process while another job had
\* a started container.
C8_Witness ==
    \E j, k \in Jobs :
       /\ j # k
       /\ fatalJob = j
       /\ exit = "exit1"
       /\ pc[k] = "copy"

\* C9 (as claimed): a build response holding an error line lets no job be
\* created and BuildImage not return, however its lines are grouped into
\* chunks; and a response without one brings no fatal error of the build,
\* unless the engine call or a Read failed or a chunk starts inside a line.
C9_ErrorLineAborts ==
    /\ bodyHasError => ~BuildReturned /\ \A j \in Jobs : ~HasCall(j, "create")
    /\ (~bodyHasError /\ fatal = "build" /\ ~engineErr /\ ~ctxCancelled)
          => (body # <<>> /\ Head(Head(body)).kind # "whole")

\* C10: the create request of a parsed target names the container by the
\* hostname with every '.' made '_' (same length, every other character
\* kept, no '.' left), and the output path handed to git-dumper is
\* /home/gget/ followed by that same name.
C10_Identifier ==
    \A j \in Jobs :
       createReq[j].issued =>
          LET h == urls[j].hostname
              name == createReq[j].name
              path == createReq[j].path
          IN /\ urls[j].parses
             /\ Len(name) = Len(h)
             /\ \A i \in 1..Len(h) : name[i] = (IF h[i] = "." THEN "_" ELSE h[i])
             /\ \A i \in 1..Len(name) : name[i] # "."
             /\ SubSeq(path, 1, Len(HomeGget)) = HomeGget
             /\ LastComponent(path) = name
             /\ Len(path) = Len(HomeGget) + Len(name)

\* C10 happens: a create request for a hostname with two dots.
C10_Witness ==
    \E j \in Jobs :
       /\ createReq[j].issued
       /\ Cardinality({i \in 1..Len(urls[j].hostname) : urls[j].hostname[i] = "."}) >= 2

\* Two hostnames that differ at most by '.' versus '_'.
Collide(g, h) ==
    /\ Len(g) = Len(h)
    /\ \A i \in 1..Len(g) : g[i] = h[i] \/ {g[i], h[i]} = {".", "_"}

\* C11: list entries whose hostnames collide are neither dropped nor
\* refused by the program: each gets its job, a job with a parsed target
\* ends at CreateContainer only after issuing its create request, and the
\* create requests of colliding entries carry the same container name and
\* the same output path.
C11_CollisionsUndetected ==
    (inputFile /\ mainpc \in {"wait", "returned"}) =>
       /\ Len(urls) = Len(fileLines)
       /\ \A j \in 1..Len(fileLines) :
             /\ pc[j] # "idle"
             /\ (urls[j].parses /\ (pc[j] \notin {"idle", "create"} \/ fatalJob = j))
                   => createReq[j].issued
       /\ \A j, k \in 1..Len(fileLines) :
             (/\ j # k
              /\ Collide(fileLines[j].hostname, fileLines[k].hostname)
              /\ createReq[j].issued
              /\ createReq[k].issued)
             => /\ createReq[j].name = createReq[k].name
                /\ createReq[j].path = createReq[k].path

\* C11 happens: the jobs of a.a and a_a are in flight together and both
\* have issued a create request under one name.
C11_Witness ==
    \E j, k \in Jobs :
       /\ j # k
       /\ inputFile
       /\ createReq[j].issued
       /\ createReq[k].issued
       /\ urls[j].hostname # urls[k].hostname
       /\ createReq[j].name = createReq[k].name
       /\ createReq[j].path = createReq[k].path
       /\ pc[j] \notin {"idle", "done"}
       /\ pc[k] \notin {"idle", "done"}

\* C14 (as claimed): when the process ends on the failure of job j's
\* ContainerLogs, the exit status is 1 and the remove request for job j's
\* container was issued before.
C14_LogsErrorStillRemoves ==
    \A j \in Jobs :
       (fatal = "logs" /\ fatalJob = j)
       => exit = "exit1" /\ HasCall(j, "remove")

\* The remove request of job j was issued and the engine did not remove the
\* container.
RemoveFailed(j) == HasCall(j, "remove") /\ ctr[j] \notin {"none", "removed"}

\* C15: a failed remove request is never fatal and does not hold the job:
\* the job is done and has left the WaitGroup, whose counter is the number
\* of jobs not done, so wg.Wait() returns when the last job is done; and a
\* process that ended with no fatal error and no signal ended with status 0.
C15_RemoveBestEffort ==
    /\ fatal # "remove"
    /\ \A j \in Jobs : RemoveFailed(j) => pc[j] = "done" /\ fatalJob # j
    /\ mainpc = "wait" => wg = Cardinality({j \in 1..Len(urls) : pc[j] # "done"})
    /\ (exit # "running" /\ fatal = "none" /\ sigSent = 0) => exit = "exit0"

\* C15 happens: the engine refused a removal under a live context and the
\* process ended with status 0.
C15_Witness ==
    /\ exit = "exit0"
    /\ ~ctxCancelled
    /\ \E j \in Jobs : RemoveFailed(j)

\* C16: in the callback the context is cancelled before os.RemoveAll is
\* reached; an output directory that was created and is gone was deleted
\* after a cancel; and a failed os.RemoveAll ends the process with status 1.
C16_CancelBeforeDelete ==
    /\ handler \in {"RemoveAll", "Exit", "exited"} => ctxCancelled /\ cbRuns >= 1
    /\ cbDone >= 1 => ctxCancelled
    /\ (mainpc \notin {"HandleInput", "HandleOutput"} /\ ~outputExists) => ctxCancelled
    /\ fatal = "RemoveAll" => exit = "exit1" /\ ctxCancelled

\* C16 happens: a signal was taken, the context cancelled and os.RemoveAll
\* failed.
C16_Witness ==
    /\ fatal = "RemoveAll"
    /\ exit = "exit1"
    /\ ctxCancelled
    /\ outputExists
    /\ sigSent >= 1

\* Job j's container was started and no remove request was issued for it.
InFlight(j) == ctr[j] \in {"running", "exited"} /\ ~HasCall(j, "remove")

\* C17: the callback's os.RemoveAll waits for no job: whenever the signal
\* goroutine stands at it in a running process it can run, whatever the
\* jobs are doing.
C17_DeleteDoesNotWait ==
    (exit = "running" /\ handler = "RemoveAll") => ENABLED RemoveAll

\* C17 happens: the output directory was deleted while a started container
\* had no remove request yet.
C17_Witness ==
    /\ cbDone >= 1
    /\ ~outputExists
    /\ \E j \in Jobs : InFlight(j) /\ pc[j] \in {"logs", "copy", "remove"}

\* C18: every engine call takes the shared context.  Once it is cancelled,
\* in a running process, no task is held in a call: main at the image build
\* or at the copy of its response, and a job at its create, start, logs, log
\* copy or remove, can each take their next step; and no call succeeds any
\* more: no image build is accepted and no container is created, started
\* or removed.
C18_NoCallOutlivesCancel ==
    /\ [](  (ctxCancelled /\ exit = "running")
            => /\ mainpc = "ImageBuild" => ENABLED ImageBuild
               /\ mainpc = "Copy" => ENABLED BuildCopy
               /\ \A j \in Jobs :
                     /\ pc[j] = "create" => ENABLED CreateContainer(j)
                     /\ pc[j] = "start" => ENABLED ContainerStart(j)
                     /\ pc[j] = "logs" => ENABLED ContainerLogs(j)
                     /\ pc[j] = "copy" => ENABLED LogCopy(j)
                     /\ pc[j] = "remove" => ENABLED ContainerRemove(j)  )
    /\ [][ ctxCancelled
           => /\ mainpc = "ImageBuild" => mainpc' = mainpc
              /\ \A j \in Jobs :
                    ctr'[j] # ctr[j] => (ctr[j] = "running" /\ ctr'[j] = "exited") ]_vars

\* C18 happens: a job held in the copy of a log stream that has not ended
\* left it after the cancel.
C18_Witness ==
    /\ ctxCancelled
    /\ \E j \in Jobs : HasCall(j, "copied") /\ ctr[j] = "running"

\* -o is missing, or -u and -f are both missing.
ConfigMissing == ~output \/ (~inputFilePath /\ input.empty)

\* C20: with a missing flag the process never gets past HandleInput and
\* HandleOutput: the output directory is not created, HandleSIGTERM is not
\* started, no engine request is issued, and the process does not end with
\* status 0; a configuration LogFatal ends it with status 1.
C20_ConfigErrorNoWork ==
    /\ ConfigMissing =>
          /\ mainpc \in {"HandleInput", "HandleOutput"}
          /\ ~outputExists
          /\ handler = "none"
          /\ \A j \in Jobs : calls[j] = <<>> /\ pc[j] = "idle"
          /\ exit # "exit0"
          /\ exit = "exit1" => fatal \in {"config", "open"}
    /\ fatal = "config" => exit = "exit1" /\ ConfigMissing

\* C20 happens: the list file was opened, -o is missing and the process
\* ended on the configuration error.
C20_Witness ==
    /\ fatal = "config"
    /\ exit = "exit1"
    /\ ~output
    /\ inputFile

\* The jobs are launched and every target is a URL that url.Parse accepts.
LaunchedParsed ==
    /\ mainpc \in {"wait", "single"}
    /\ \A j \in 1..Len(urls) : urls[j].parses

\* C19 (as claimed): a process whose image build returned, that saw no
\* engine error and no signal and has ended, ended with status 0, every job
\* having issued its remove request (whatever the targets are).
C19_EndsWithZero ==
    (BuildReturned /\ ~engineErr /\ sigSent = 0 /\ exit # "running")
    => /\ exit = "exit0"
       /\ \A j \in 1..Len(urls) : HasCall(j, "remove")

\* C19 (amended): with no failure and no signal, once the jobs are launched
\* on targets that all parse, every job issues its remove request and the
\* process ends with status 0; a job leaves the copy of its log stream only
\* when the stream has ended, and main returns only when every job is done:
\* a stream that never ends keeps its job in the copy and main from
\* returning.
C19_Termination ==
    /\ LaunchedParsed ~> (exit = "exit0" /\ \A j \in 1..Len(urls) : HasCall(j, "remove"))
    /\ [][\A j \in Jobs : (pc[j] = "copy" /\ pc'[j] # "copy") => ctr[j] = "exited"]_vars
    /\ [](mainpc = "returned" => \A j \in 1..Len(urls) : pc[j] = "done")

\* C19 happens: a list of MaxTargets targets ran to the end, each job
\* after the end of its log stream, and main returned.
C19_Witness ==
    /\ exit = "exit0"
    /\ Len(urls) = MaxTargets
    /\ \A j \in 1..Len(urls) : calls[j] = Lifecycle

\* The chunks written so far, in order.
Chunks == [k \in 1..Len(events) |-> events[k].chunk]

\* The event of the chunk written last.
Last == events[Len(events)]

\* C12 (as claimed): the phase of the event of a chunk is Fetching exactly
\* when the chunk holds "Fetching", Testing exactly when it holds "Testing",
\* and Other exactly when it holds neither.
C12_PhaseIffSentinel ==
    events # <<>> =>
       /\ Last.phase = "Fetching" <=> Contains(Last.chunk, Fetching)
       /\ Last.phase = "Testing" <=> Contains(Last.chunk, Testing)
       /\ Last.phase = "Other" <=> (~Contains(Last.chunk, Fetching) /\ ~Contains(Last.chunk, Testing))

\* C12 (amended): every chunk read gives one event, is reported consumed
\* whole and with no error; the phase is Fetching exactly when the chunk
\* holds "Fetching", Testing exactly when it holds "Testing" and not
\* "Fetching", Other exactly when it holds neither; the text of a Fetching
\* or Testing event is a URL taken from the chunk (or empty), the text of
\* an Other event is the chunk; and the event is the one Write gives for
\* that chunk alone, whatever was written before.
C12_Classify ==
    /\ (Flatten(Chunks) \o rc) \in LogStreams
    /\ events # <<>> =>
          LET e == Last
              f == Contains(e.chunk, Fetching)
              t == Contains(e.chunk, Testing)
          IN /\ e.n = Len(e.chunk)
             /\ e.err = "nil"
             /\ e.phase = "Fetching" <=> f
             /\ e.phase = "Testing" <=> (t /\ ~f)
             /\ e.phase = "Other" <=> (~f /\ ~t)
             /\ e.phase = "Other" => e.text = e.chunk
             /\ e.phase # "Other" =>
                   /\ Contains(e.chunk, e.text)
                   /\ e.text = <<>> \/ At(e.text, 1, <<"h","t","t","p">>)
             /\ e = GitDumperLogWrite(e.chunk)

\* C12 happens: a chunk holding a Testing line and then a Fetching line was
\* written, and the event is Fetching with the URL of the Testing line.
C12_Witness ==
    /\ events # <<>>
    /\ Contains(Last.chunk, Fetching)
    /\ Contains(Last.chunk, Testing)
    /\ Last.phase = "Fetching"
    /\ Last.text = <<"h","t","t","p","s",":","/","/","c",".","d">>

\* No sentinel is whole in chunk c.
NoSentinel(c) == ~Contains(c, Fetching) /\ ~Contains(c, Testing)

\* A sentinel lies across the boundary of the last two chunks.
Straddles ==
    /\ Len(events) >= 2
    /\ NoSentinel(events[Len(events) - 1].chunk)
    /\ NoSentinel(Last.chunk)
    /\ ~NoSentinel(events[Len(events) - 1].chunk \o Last.chunk)

\* C13: when a sentinel lies across the boundary of two chunks read one
\* after the other and neither chunk holds a whole one, both events are
\* Other, the bytes passed through, while Write on the two chunks as one
\* gives Fetching or Testing.
C13_ChunkingMatters ==
    Straddles =>
       LET prev == events[Len(events) - 1]
       IN /\ prev.phase = "Other"
          /\ Last.phase = "Other"
          /\ prev.text \o Last.text = prev.chunk \o Last.chunk
          /\ GitDumperLogWrite(prev.chunk \o Last.chunk).phase \in {"Fetching", "Testing"}

\* C13 happens: io.Copy cut a Fetching line inside the sentinel.
C13_Witness ==
    /\ Straddles
    /\ Contains(events[Len(events) - 1].chunk \o Last.chunk, Fetching)
    /\ events[Len(events) - 1].phase = "Other"
    /\ Last.phase = "Other"

====
